---- MODULE Spec2Model ----
(***************************************************************************)
(* Model of the relevance-matching core of the motorcycle listing tracker  *)
(* (utils/relevant_match.py and its callers).  Text is a sequence of       *)
(* one-character strings; a score is an exact fraction <<num, den>> in     *)
(* lowest terms (the code computes the same quantities in binary floating  *)
(* point; rounding is monotone, so order against the 0.6/0.4 weights and   *)
(* the bounds 0 and 1 is preserved).                                       *)
(***************************************************************************)
EXTENDS Integers, Sequences, FiniteSets, TLC

\* ------------------------------------------------------------------------
\* Characters and the str / re primitives the code uses
\* ------------------------------------------------------------------------

UpperChars ==
  <<"A","B","C","D","E","F","G","H","I","J","K","L","M",
    "N","O","P","Q","R","S","T","U","V","W","X","Y","Z">>

LowerChars ==
  <<"a","b","c","d","e","f","g","h","i","j","k","l","m",
    "n","o","p","q","r","s","t","u","v","w","x","y","z">>

Digits ==
  {"0","1","2","3","4","5","6","7","8","9"}

Range(s) ==
  { s[i] : i \in DOMAIN s }

\* str.isspace for one character: what str.split() and the regex \s split on
IsSpace(c) ==
  c \in {" ", "\t", "\n"}

\* the regex class \d
IsDigit(c) ==
  c \in Digits

\* the regex class \w
IsWordChar(c) ==
  IsDigit(c) \/ c = "_" \/ c \in Range(UpperChars) \/ c \in Range(LowerChars)

\* the class [\w\s] kept by re.sub(r'[^\w\s]', '', text)
IsWordOrSpace(c) ==
  IsWordChar(c) \/ IsSpace(c)

LowerChar(c) ==
  IF c \in Range(UpperChars)
  THEN LowerChars[CHOOSE i \in DOMAIN UpperChars : UpperChars[i] = c]
  ELSE c

UpperChar(c) ==
  IF c \in Range(LowerChars)
  THEN UpperChars[CHOOSE i \in DOMAIN LowerChars : LowerChars[i] = c]
  ELSE c

\* str.lower()
lower(text) ==
  [i \in DOMAIN text |-> LowerChar(text[i])]

\* str.upper()
upper(text) ==
  [i \in DOMAIN text |-> UpperChar(text[i])]

RECURSIVE split_from(_, _, _, _)
split_from(text, i, cur, acc) ==
  IF i > Len(text)
  THEN IF cur = <<>> THEN acc ELSE Append(acc, cur)
  ELSE IF IsSpace(text[i])
       THEN split_from(text, i + 1, <<>>, IF cur = <<>> THEN acc ELSE Append(acc, cur))
       ELSE split_from(text, i + 1, Append(cur, text[i]), acc)

\* str.split() with no argument: the maximal runs of non-whitespace
split(text) ==
  split_from(text, 1, <<>>, <<>>)

RECURSIVE join(_, _)
\* sep.join(words)
join(sep, words) ==
  IF words = <<>> THEN <<>>
  ELSE IF Len(words) = 1 THEN words[1]
  ELSE words[1] \o sep \o join(sep, Tail(words))

\* needle in hay (substring test of str); the empty string is in every string
contains(hay, needle) ==
  \E i \in 0..(Len(hay) - Len(needle)) : SubSeq(hay, i + 1, i + Len(needle)) = needle

\* str.isdigit(): non-empty and all digits
isdigit(word) ==
  word # <<>> /\ \A i \in DOMAIN word : IsDigit(word[i])

\* str.replace(ch, '') for a one-character ch
remove_char(text, ch) ==
  SelectSeq(text, LAMBDA c : c # ch)

\* the regex assertion \b between positions i-1 and i (1-based, i in 1..Len+1)
word_boundary(text, i) ==
  LET before == i - 1 >= 1 /\ IsWordChar(text[i - 1])
      after  == i <= Len(text) /\ IsWordChar(text[i])
  IN  before # after

\* set(re.findall(r'\b\d{2,4}\b', text))
findall_model_numbers(text) ==
  { SubSeq(text, p[1], p[1] + p[2] - 1) :
      p \in { q \in (1..Len(text)) \X (2..4) :
                /\ q[1] + q[2] - 1 <= Len(text)
                /\ \A i \in q[1]..(q[1] + q[2] - 1) : IsDigit(text[i])
                /\ word_boundary(text, q[1])
                /\ word_boundary(text, q[1] + q[2]) } }

\* set(re.findall(r'\d+', text)): the maximal runs of digits
findall_digit_runs(text) ==
  { SubSeq(text, p[1], p[2]) :
      p \in { q \in (1..Len(text)) \X (1..Len(text)) :
                /\ q[1] <= q[2]
                /\ \A i \in q[1]..q[2] : IsDigit(text[i])
                /\ (q[1] = 1 \/ ~IsDigit(text[q[1] - 1]))
                /\ (q[2] = Len(text) \/ ~IsDigit(text[q[2] + 1])) } }

\* ------------------------------------------------------------------------
\* Exact fractions for scores
\* ------------------------------------------------------------------------

RECURSIVE GCD(_, _)
GCD(m, n) ==
  IF n = 0 THEN m ELSE GCD(n, m % n)

Frac(n, d) ==
  LET g == GCD(n, d) IN <<n \div g, d \div g>>

FracAdd(x, y) ==
  Frac(x[1] * y[2] + y[1] * x[2], x[2] * y[2])

FracMul(x, y) ==
  Frac(x[1] * y[1], x[2] * y[2])

FracGE(x, y) ==
  x[1] * y[2] >= y[1] * x[2]

FracLT(x, y) ==
  ~FracGE(x, y)

\* ------------------------------------------------------------------------
\* difflib.SequenceMatcher(None, a, b).ratio()
\* (no junk predicate; the autojunk heuristic only acts on len(b) >= 200)
\* ------------------------------------------------------------------------

RECURSIVE common_run(_, _, _, _, _, _)
\* length of the longest common run of a[i..ahi] and b[j..bhi] starting at i, j
common_run(a, b, i, j, ahi, bhi) ==
  IF i > ahi \/ j > bhi THEN 0
  ELSE IF a[i] # b[j] THEN 0
  ELSE 1 + common_run(a, b, i + 1, j + 1, ahi, bhi)

\* SequenceMatcher.find_longest_match on a[alo..ahi], b[blo..bhi] (1-based,
\* inclusive): the longest block; of those the earliest in a; of those the
\* earliest in b.  Result <<i, j, k>>, k = 0 when nothing matches.
find_longest_match(a, b, alo, ahi, blo, bhi) ==
  LET run == [p \in (alo..ahi) \X (blo..bhi) |-> common_run(a, b, p[1], p[2], ahi, bhi)]
      best == CHOOSE k \in 0..(ahi - alo + 1) :
                 /\ (k = 0 \/ \E p \in DOMAIN run : run[p] = k)
                 /\ \A p \in DOMAIN run : run[p] <= k
  IN  IF best = 0 THEN <<alo, blo, 0>>
      ELSE LET besti == CHOOSE i \in alo..ahi :
                           /\ \E j \in blo..bhi : run[<<i, j>>] = best
                           /\ \A i2 \in alo..(i - 1) : \A j \in blo..bhi : run[<<i2, j>>] # best
               bestj == CHOOSE j \in blo..bhi :
                           /\ run[<<besti, j>>] = best
                           /\ \A j2 \in blo..(j - 1) : run[<<besti, j2>>] # best
           IN  <<besti, bestj, best>>

RECURSIVE matching_size(_, _, _, _, _, _)
\* sum of the sizes of SequenceMatcher.get_matching_blocks(): the longest
\* match, then recursively the pieces to its left and to its right
matching_size(a, b, alo, ahi, blo, bhi) ==
  IF alo > ahi \/ blo > bhi THEN 0
  ELSE LET m == find_longest_match(a, b, alo, ahi, blo, bhi)
       IN  IF m[3] = 0 THEN 0
           ELSE m[3] + matching_size(a, b, alo, m[1] - 1, blo, m[2] - 1)
                     + matching_size(a, b, m[1] + m[3], ahi, m[2] + m[3], bhi)

\* SequenceMatcher.ratio(): 2.0 * matches / (len(a) + len(b)), 1.0 when both empty
sequence_ratio(a, b) ==
  IF Len(a) + Len(b) = 0 THEN <<1, 1>>
  ELSE Frac(2 * matching_size(a, b, 1, Len(a), 1, Len(b)), Len(a) + Len(b))

\* ------------------------------------------------------------------------
\* config/config.py and the literals passed as min_match_ratio
\* ------------------------------------------------------------------------

\* MATCH_THRESHOLDS: 0.40, 0.50, 0.4575
MATCH_THRESHOLDS ==
  [gumtree |-> <<2, 5>>, autotrader |-> <<1, 2>>, webuycars |-> <<183, 400>>]

\* default of the parameter min_match_ratio of is_relevant_match: 0.435
DEFAULT_MIN_MATCH_RATIO ==
  <<87, 200>>

WEBUYCARS_MIN_MATCH_RATIO_LOW ==
  <<1, 10>>

\* min_match_ratio=0.3 in scrape_webuycars
WEBUYCARS_MIN_MATCH_RATIO ==
  <<3, 10>>

\* the title-gate literal of the tracker's own is_relevant_autotrader_match
AUTOTRADER_TRACKER_RATIO ==
  <<1, 2>>

\* the values min_match_ratio is given: the configured thresholds, the
\* parameter's default and the literal of scrape_webuycars
MinMatchRatios ==
  { MATCH_THRESHOLDS.gumtree, MATCH_THRESHOLDS.autotrader, MATCH_THRESHOLDS.webuycars,
    DEFAULT_MIN_MATCH_RATIO, WEBUYCARS_MIN_MATCH_RATIO }

\* ------------------------------------------------------------------------
\* utils/relevant_match.py
\* ------------------------------------------------------------------------

normalize_text(text) ==
  IF text = <<>> THEN <<>>
  ELSE join(<<" ">>, split(SelectSeq(lower(text), IsWordOrSpace)))

get_word_tokens(text) ==
  { w \in Range(split(normalize_text(text))) : Len(w) > 1 }

\* list(search_words)[0]: search_words is a set of str, whose iteration order
\* is unspecified (it follows the per-process string hash), so any element
\* can come first
first_of_set(words) ==
  words

SCORE_SUBSTRING == <<1, 1>>
SCORE_NO_WORDS  == <<0, 1>>
SCORE_BRAND     == <<1, 10>>
SCORE_NUMBER    == <<3, 20>>
JACCARD_WEIGHT  == <<6, 10>>
SEQUENCE_WEIGHT == <<4, 10>>

jaccard_over_search(search_words, title_words) ==
  IF search_words = {} THEN <<0, 1>>
  ELSE Frac(Cardinality(search_words \cap title_words), Cardinality(search_words))

\* len(intersection) / len(union) if union else 0.0
jaccard(search_words, title_words) ==
  IF search_words \cup title_words = {} THEN <<0, 1>>
  ELSE Frac(Cardinality(search_words \cap title_words),
            Cardinality(search_words \cup title_words))

\* the condition of the substring shortcut:
\* search_norm in title_norm or title_norm in search_norm
substring_match_one_way(search_norm, title_norm) ==
  contains(title_norm, search_norm)

substring_match(search_norm, title_norm) ==
  contains(title_norm, search_norm) \/ contains(search_norm, title_norm)

\* the condition of the model-number gate:
\* search_numbers and not (search_numbers & title_numbers)
number_gate_title_side(search_numbers, title_numbers) ==
  title_numbers # {} /\ search_numbers \cap title_numbers = {}

number_gate(search_numbers, title_numbers) ==
  search_numbers # {} /\ search_numbers \cap title_numbers = {}

\* (jaccard * 0.6) + (sequence_ratio * 0.4)
blend_unweighted(jaccard_value, ratio_value) ==
  FracAdd(jaccard_value, ratio_value)

blend(jaccard_value, ratio_value) ==
  FracAdd(FracMul(jaccard_value, JACCARD_WEIGHT), FracMul(ratio_value, SEQUENCE_WEIGHT))

\* fuzzy_match_score(search_term, listing_title); head is the element that
\* list(search_words)[0] yields in this evaluation.  The result carries the
\* return statement that produced the score.
fuzzy_match_score(search_term, listing_title, head) ==
  LET search_norm    == normalize_text(search_term)
      title_norm     == normalize_text(listing_title)
      search_words   == get_word_tokens(search_term)
      title_words    == get_word_tokens(listing_title)
      search_numbers == findall_model_numbers(search_norm)
      title_numbers  == findall_model_numbers(title_norm)
  IN  IF substring_match(search_norm, title_norm)
      THEN [score |-> SCORE_SUBSTRING, ret |-> "substring"]
      ELSE IF search_words = {}
      THEN [score |-> SCORE_NO_WORDS, ret |-> "no_words"]
      ELSE IF head \notin title_words
      THEN [score |-> SCORE_BRAND, ret |-> "brand"]
      ELSE IF number_gate(search_numbers, title_numbers)
      THEN [score |-> SCORE_NUMBER, ret |-> "number"]
      ELSE [score |-> blend(jaccard(search_words, title_words),
                            sequence_ratio(search_norm, title_norm)),
            ret |-> "blend"]

\* the values list(search_words)[0] can take in one evaluation (the brand is
\* only read when search_words is non-empty)
brand_choices(search_term) ==
  IF get_word_tokens(search_term) = {} THEN {<<>>}
  ELSE first_of_set(get_word_tokens(search_term))

\* is_relevant_match: score >= min_match_ratio
is_relevant_match(search_term, listing_title, min_match_ratio, head) ==
  FracGE(fuzzy_match_score(search_term, listing_title, head).score, min_match_ratio)

\* text after the first token and the whitespace that follows it:
\* search_term.split(maxsplit=1)[1]
RECURSIVE drop_while(_, _, _)
drop_while(text, i, space) ==
  IF i > Len(text) THEN <<>>
  ELSE IF IsSpace(text[i]) = space THEN drop_while(text, i + 1, space)
  ELSE SubSeq(text, i, Len(text))

split_rest(text) ==
  drop_while(drop_while(drop_while(text, 1, TRUE), 1, FALSE), 1, TRUE)

\* the number check of is_relevant_autotrader_match:
\* has_number and search_numbers and not (search_numbers & title_numbers)
number_check_inverted(has_number, search_numbers, title_numbers) ==
  has_number /\ search_numbers # {} /\ search_numbers \cap title_numbers # {}

number_check(has_number, search_numbers, title_numbers) ==
  has_number /\ search_numbers # {} /\ search_numbers \cap title_numbers = {}

matching_words_whole(model_words, title_lower) ==
  Cardinality({ i \in DOMAIN model_words : model_words[i] \in Range(split(title_lower)) })

\* sum(1 for word in model_words if word in title_lower)
matching_words(model_words, title_lower) ==
  Cardinality({ i \in DOMAIN model_words : contains(title_lower, model_words[i]) })

\* is_relevant_autotrader_match(listing_title, search_term) of
\* utils/relevant_match.py
is_relevant_autotrader_match(listing_title, search_term) ==
  LET parts          == split(search_term)
      model          == lower(split_rest(search_term))
      title_lower    == lower(listing_title)
      model_words    == split(model)
      has_number     == \E i \in DOMAIN model_words :
                           isdigit(remove_char(remove_char(model_words[i], ","), "."))
      search_numbers == findall_digit_runs(model)
      title_numbers  == findall_digit_runs(listing_title)
      match_ratio    == IF model_words # <<>>
                        THEN Frac(matching_words(model_words, title_lower), Len(model_words))
                        ELSE <<1, 1>>
  IN  IF Len(parts) < 2 THEN TRUE
      ELSE IF number_check(has_number, search_numbers, title_numbers)
      THEN FALSE
      ELSE FracGE(match_ratio, MATCH_THRESHOLDS.autotrader)

\* the copy of is_relevant_autotrader_match defined in
\* trackers/autotraderTracker.py, the one scrape_autotrader calls
tracker_is_relevant_autotrader_match(listing_title, search_term) ==
  LET parts          == split(search_term)
      model          == lower(split_rest(search_term))
      title_lower    == lower(listing_title)
      model_words    == split(model)
      has_number     == \E i \in DOMAIN model_words :
                           isdigit(remove_char(remove_char(model_words[i], ","), "."))
      search_numbers == findall_digit_runs(model)
      title_numbers  == findall_digit_runs(listing_title)
      count          == Cardinality({ i \in DOMAIN model_words : contains(title_lower, model_words[i]) })
      match_ratio    == Frac(count, Len(model_words))
  IN  IF Len(parts) < 2 THEN TRUE
      ELSE IF has_number /\ search_numbers # {} /\ search_numbers \cap title_numbers = {}
      THEN FALSE
      ELSE FracGE(match_ratio, AUTOTRADER_TRACKER_RATIO)

\* ------------------------------------------------------------------------
\* trackers/baseTracker.py
\* ------------------------------------------------------------------------

\* stop_words of baseTracker.is_relevant_match
STOP_WORDS ==
  { <<"t","h","e">>, <<"a">>, <<"a","n">>, <<"a","n","d">>, <<"o","r">>,
    <<"f","o","r">>, <<"w","i","t","h">> }

\* the literal scrape_autotrader passes to baseTracker.is_relevant_match
AUTOTRADER_WORD_RATIO ==
  <<1, 2>>

\* baseTracker.is_relevant_match: the share of the search term's words
\* (stop words aside) found among the title's words
base_is_relevant_match(listing_title, search_term, min_ratio) ==
  LET title_words    == Range(split(lower(listing_title))) \ STOP_WORDS
      search_words   == Range(split(lower(search_term))) \ STOP_WORDS
      matching       == title_words \cap search_words
  IN  IF search_words = {} THEN TRUE
      ELSE FracGE(Frac(Cardinality(matching), Cardinality(search_words)), min_ratio)

\* baseTracker.validate_search_term(search_term, required_format="Brand Model")
validate_search_term(search_term) ==
  /\ search_term # <<>>
  /\ ~(\A i \in DOMAIN search_term : IsSpace(search_term[i]))
  /\ Len(split(search_term)) >= 2

\* ------------------------------------------------------------------------
\* utils/search_variation_generator.py
\* ------------------------------------------------------------------------

\* the suffix tokens dropped by variation 4: ['SX', 'GS', 'X', 'SE', 'ABS']
FILLER_SUFFIXES ==
  { <<"S","X">>, <<"G","S">>, <<"X">>, <<"S","E">>, <<"A","B","S">> }

\* brand and model text put together: f"{brand} {model}"
brand_model(brand, model) ==
  brand \o <<" ">> \o model

first_variation_respaced(search_term) ==
  <<join(<<" ">>, split(search_term))>>

\* variations = [search_term]
first_variation(search_term) ==
  <<search_term>>

\* any(char.isdigit() for char in part)
has_digit(part) ==
  \E i \in DOMAIN part : IsDigit(part[i])

not_filler_exact_case(part) ==
  part \notin FILLER_SUFFIXES

\* p.upper() not in ['SX', 'GS', 'X', 'SE', 'ABS']
not_filler(part) ==
  upper(part) \notin FILLER_SUFFIXES

has_numeric_part_any_digit(model_parts) ==
  \E i \in DOMAIN model_parts : has_digit(model_parts[i])

\* any(p.isdigit() for p in model_parts)
has_numeric_part(model_parts) ==
  \E i \in DOMAIN model_parts : isdigit(model_parts[i])

\* the list `variations` before duplicates are removed, for a search term of
\* at least two tokens
candidate_variations(search_term) ==
  LET parts       == split(search_term)
      brand       == parts[1]
      model_parts == Tail(parts)
      model_str   == join(<<" ">>, model_parts)
      no_hyphens  == remove_char(model_str, "-")
      digit_parts == SelectSeq(model_parts, has_digit)
      trimmed     == join(<<" ">>, SelectSeq(model_parts, not_filler))
      combined    == join(<<>>, model_parts)
      variation1  == IF no_hyphens # model_str
                     THEN <<brand_model(brand, no_hyphens)>> ELSE <<>>
      variation2  == IF Len(model_parts) > 1
                     THEN <<brand_model(brand, model_parts[1])>> ELSE <<>>
      variation3  == IF digit_parts # <<>>
                     THEN <<brand_model(brand, digit_parts[1])>> ELSE <<>>
      variation4  == IF trimmed # <<>> /\ trimmed # model_str
                     THEN <<brand_model(brand, trimmed)>> ELSE <<>>
      variation5  == IF Len(model_parts) >= 2 /\ has_numeric_part(model_parts) /\ combined # model_str
                     THEN <<brand_model(brand, combined)>> ELSE <<>>
  IN  first_variation(search_term) \o variation1 \o variation2 \o variation3
        \o variation4 \o variation5

RECURSIVE unique_from(_, _, _, _)
unique_from(variations, i, seen, unique_variations) ==
  IF i > Len(variations) THEN unique_variations
  ELSE IF lower(variations[i]) \in seen
       THEN unique_from(variations, i + 1, seen, unique_variations)
       ELSE unique_from(variations, i + 1, seen \cup {lower(variations[i])},
                        Append(unique_variations, variations[i]))

unique_variations_lowered(variations) ==
  unique_from([i \in DOMAIN variations |-> lower(variations[i])], 1, {}, <<>>)

unique_variations_kept_all(variations) ==
  variations

\* the loop that removes duplicates while preserving order
unique_variations(variations) ==
  unique_from(variations, 1, {}, <<>>)

\* generate_search_variations(search_term)
generate_search_variations(search_term) ==
  IF Len(split(search_term)) < 2 THEN first_variation(search_term)
  ELSE unique_variations(candidate_variations(search_term))

\* ------------------------------------------------------------------------
\* main.py: price parsing, process_listings and the clean-up before saving
\* ------------------------------------------------------------------------

\* the source names main.py treats as live scrapers
LIVE_SCRAPERS ==
  { "Autotrader", "Gumtree" }

\* Python's None where a price or an old price is expected
NONE == <<"None">>

\* clean_price returns None: the model's value for it, below every price
NOT_A_PRICE == -1

RECURSIVE lstrip(_)
lstrip(text) ==
  IF text # <<>> /\ IsSpace(Head(text)) THEN lstrip(Tail(text)) ELSE text

RECURSIVE rstrip(_)
rstrip(text) ==
  IF text # <<>> /\ IsSpace(text[Len(text)])
  THEN rstrip(SubSeq(text, 1, Len(text) - 1))
  ELSE text

\* str.strip()
strip(text) ==
  rstrip(lstrip(text))

\* the value of one decimal digit
digit_value(c) ==
  CHOOSE d \in 0..9 : ToString(d) = c

RECURSIVE int(_)
\* int() of a string of decimal digits
int(digits) ==
  IF digits = <<>> THEN 0
  ELSE 10 * int(SubSeq(digits, 1, Len(digits) - 1)) + digit_value(digits[Len(digits)])

\* clean_price: 'R 65,000' -> 65000, None when what is left is not a number
clean_price(price_str) ==
  LET cleaned == strip(remove_char(remove_char(price_str, "R"), ","))
  IN  IF isdigit(cleaned) THEN int(cleaned) ELSE NOT_A_PRICE

\* dict.get(key, {}) on a dictionary of dictionaries
get_dict(dict, key) ==
  IF key \in DOMAIN dict THEN dict[key] ELSE <<>>

\* the entries of dict whose key is in keys
restrict(dict, keys) ==
  [k \in (DOMAIN dict) \cap keys |-> dict[k]]

\* dict.update(other)
update(dict, other) ==
  [k \in (DOMAIN dict) \cup (DOMAIN other) |-> IF k \in DOMAIN other THEN other[k] ELSE dict[k]]

\* a listing as a scraper returns it: price_history, price_dropped and
\* old_price are keys the scrapers do not set; they stand here with the
\* defaults main.py reads them with
scraped_listing(listing_id, site, price) ==
  [id |-> listing_id, source |-> site, price |-> price,
   price_history |-> <<>>, price_dropped |-> FALSE, old_price |-> NONE]

is_new_always(listings_id, previous_listings) ==
  TRUE

\* listings_id not in previous_listings
is_new(listings_id, previous_listings) ==
  listings_id \notin DOMAIN previous_listings

price_changed_unparsed(old_p, new_p) ==
  old_p # new_p

\* old_p is not None and new_p is not None and old_p != new_p
price_changed(old_p, new_p) ==
  old_p # NOT_A_PRICE /\ new_p # NOT_A_PRICE /\ old_p # new_p

is_drop_any_change(old_p, new_p) ==
  TRUE

\* new_p < old_p
is_drop(old_p, new_p) ==
  new_p < old_p

old_history_dropped(old_listing) ==
  <<>>

\* old_listing.get('price_history', [])
old_history(old_listing) ==
  old_listing.price_history

\* the price-drop branch of process_listings for one listing that is also
\* in previous_listings
compare_with_previous(current_listing, old_listing) ==
  LET old_p   == clean_price(old_listing.price)
      new_p   == clean_price(current_listing.price)
      changed == price_changed(old_p, new_p)
      dropped == changed /\ is_drop(old_p, new_p)
  IN  [current_listing EXCEPT
         !.price_history = old_history(old_listing) \o
                             (IF changed THEN <<current_listing.price>> ELSE <<>>),
         !.price_dropped = dropped,
         !.old_price     = IF dropped THEN old_listing.price ELSE NONE]

\* process_listings: the listings of current as it leaves them, and the
\* listings it returns as new and as price drops (each named by bike and id)
process_listings(current, previous) ==
  LET processed ==
        [bike \in DOMAIN current |->
           [listing_id \in DOMAIN current[bike] |->
              IF is_new(listing_id, get_dict(previous, bike))
              THEN current[bike][listing_id]
              ELSE compare_with_previous(current[bike][listing_id],
                                         get_dict(previous, bike)[listing_id])]]
  IN  [current          |-> processed,
       all_new_listings |-> { <<bike, listing_id>> \in (DOMAIN current) \X UNION { DOMAIN current[b] : b \in DOMAIN current } :
                                /\ listing_id \in DOMAIN current[bike]
                                /\ is_new(listing_id, get_dict(previous, bike)) },
       all_price_drops  |-> { <<bike, listing_id>> \in (DOMAIN current) \X UNION { DOMAIN current[b] : b \in DOMAIN current } :
                                /\ listing_id \in DOMAIN current[bike]
                                /\ ~is_new(listing_id, get_dict(previous, bike))
                                /\ processed[bike][listing_id].price_dropped }]

\* main: the ids of this run that came from live scrapers
current_run_ids(current) ==
  UNION { { listing_id \in DOMAIN current[bike] :
              current[bike][listing_id].source \in LIVE_SCRAPERS } : bike \in DOMAIN current }

\* main: previous listings restricted to live-scraper entries
previous_for_cleanup(previous) ==
  [bike \in DOMAIN previous |->
     restrict(previous[bike],
              { listing_id \in DOMAIN previous[bike] :
                  previous[bike][listing_id].source \in LIVE_SCRAPERS })]

\* clean_stale_listings: the listings whose id is in current_run_ids
clean_stale_listings(all_listings, run_ids) ==
  [bike \in DOMAIN all_listings |-> restrict(all_listings[bike], run_ids)]

\* main: merge the current listings into all_listings
merge_current(all_listings, current) ==
  [bike \in (DOMAIN all_listings) \cup (DOMAIN current) |->
     IF bike \in DOMAIN current
     THEN update(get_dict(all_listings, bike), current[bike])
     ELSE all_listings[bike]]

\* main: what is handed to save_listings
listings_to_save(current, previous) ==
  merge_current(clean_stale_listings(previous_for_cleanup(previous), current_run_ids(current)),
                current)

\* SCRAPERS, in the order main.py lists them
SCRAPERS ==
  << "scrape_autotrader", "scrape_gumtree", "scrape_webuycars_cached" >>

caught_never(error) ==
  FALSE

\* scrape_bike_async: except Exception
caught(error) ==
  error = "Exception"

\* scrape_bike_async: return {} after an exception
EMPTY_RESULT == <<>>

gathered_as_completed(bike_results, finished) ==
  [i \in DOMAIN finished |-> bike_results[finished[i]]]

\* asyncio.gather(*tasks): the results in the order of the tasks, which is
\* the order of SCRAPERS, however the tasks finished
gathered(bike_results, finished) ==
  [i \in DOMAIN SCRAPERS |-> bike_results[SCRAPERS[i]]]

RECURSIVE update_all(_, _)
\* bike_listings after `for result in results: bike_listings.update(result)`
update_all(bike_listings, gathered_results) ==
  IF gathered_results = <<>> THEN bike_listings
  ELSE update_all(update(bike_listings, Head(gathered_results)), Tail(gathered_results))

\* ------------------------------------------------------------------------
\* cache_webuycars.py
\* ------------------------------------------------------------------------

\* fetch_all_listings: max_pages = 100
max_pages == 100

\* the polling loop adds 0.5 to max_wait while max_wait < 8; max_wait is
\* counted here in halves of a second
MAX_WAIT_HALVES == 16

\* the polling loop waits for two API responses
RESPONSES_AWAITED == 2

\* `while page_num <= max_pages`
more_pages(num) ==
  num <= max_pages

\* `while max_wait < 8 and api_response_count < 2`
keep_waiting(waited, responses) ==
  waited < MAX_WAIT_HALVES /\ responses < RESPONSES_AWAITED

enough_empty_pages_never(empty_pages) ==
  FALSE

\* `if consecutive_empty_pages >= 2: break`
enough_empty_pages(empty_pages) ==
  empty_pages >= 2

\* handle_response: the listing_data stored under a listing id
listing_data(listing_id) ==
  [id |-> listing_id, source |-> "WeBuyCars"]

\* handle_response: dict[listing_id] = listing_data for every item of the
\* response
store_items(dict, ids) ==
  [listing_id \in (DOMAIN dict) \cup ids |->
     IF listing_id \in ids THEN listing_data(listing_id) ELSE dict[listing_id]]

\* ------------------------------------------------------------------------
\* Inputs
\* ------------------------------------------------------------------------

MaxSearchWords == 2
MaxTitleWords  == 2

\* words a search term is built from
SearchWords ==
  { <<"A","-","b">>, <<"1","2">>, <<"c","1">>, <<"x">> }

\* words a listing title is built from
TitleWords ==
  { <<"a","b">>, <<"1","2">>, <<"c","1","2">>, <<"-">> }

\* all texts of at most n words, single-space separated
Phrases(words, n) ==
  { join(<<" ">>, ws) : ws \in UNION { [1..k -> words] : k \in 0..n } }

SearchTerms ==
  Phrases(SearchWords, MaxSearchWords)

Titles ==
  Phrases(TitleWords, MaxTitleWords)

\* TEST_CASES of tune_match_ratio.py: (search_term, listing_title, should_match)
TEST_CASES ==
  <<
    <<<<"S","u","z","u","k","i"," ","D","S"," ","2","5","0"," ","S","X"," ","V","-","S","T","R","O","M">>,
      <<"S","u","z","u","k","i"," ","2","5","0"," ","V","-","S","t","r","o","m">>, TRUE>>,
    <<<<"S","u","z","u","k","i"," ","D","S"," ","2","5","0"," ","S","X"," ","V","-","S","T","R","O","M">>,
      <<"2","0","2","5"," ","S","u","z","u","k","i"," ","V","-","S","T","R","O","M"," ","D","S"," ","2","5","0"," ","S","X">>, TRUE>>,
    <<<<"S","u","z","u","k","i"," ","D","S"," ","2","5","0"," ","S","X"," ","V","-","S","T","R","O","M">>,
      <<"S","u","z","u","k","i"," ","V","s","t","r","o","m"," ","2","5","0">>, TRUE>>,
    <<<<"S","u","z","u","k","i"," ","D","S"," ","2","5","0"," ","S","X"," ","V","-","S","T","R","O","M">>,
      <<"S","u","z","u","k","i"," ","D","l","1","0","0","0"," ","V","s","t","r","o","m">>, FALSE>>,
    <<<<"H","o","n","d","a"," ","C","B","5","0","0","X">>,
      <<"2","0","2","2"," ","H","o","n","d","a"," ","C","B","5","0","0","X">>, TRUE>>,
    <<<<"H","o","n","d","a"," ","C","B","5","0","0","X">>,
      <<"H","o","n","d","a"," ","C","B"," ","5","0","0","X">>, TRUE>>,
    <<<<"H","o","n","d","a"," ","C","B","5","0","0","X">>,
      <<"2","0","1","4"," ","H","o","n","d","a"," ","C","R","F">>, FALSE>>,
    <<<<"K","a","w","a","s","a","k","i"," ","N","i","n","j","a"," ","4","0","0">>,
      <<"2","0","2","3"," ","K","a","w","a","s","a","k","i"," ","N","i","n","j","a"," ","4","0","0"," ","S","E"," ","A","B","S"," ","D","e","m","o">>, TRUE>>,
    <<<<"K","a","w","a","s","a","k","i"," ","N","i","n","j","a"," ","4","0","0">>,
      <<"2","0","2","4"," ","K","a","w","a","s","a","k","i"," ","N","i","n","j","a">>, TRUE>>,
    <<<<"K","a","w","a","s","a","k","i"," ","N","i","n","j","a"," ","4","0","0">>,
      <<"K","a","w","a","s","a","k","i"," ","K","F","X"," ","4","0","0">>, FALSE>>,
    <<<<"K","a","w","a","s","a","k","i"," ","N","i","n","j","a"," ","4","0","0">>,
      <<"1","9","8","8"," ","K","a","w","a","s","a","k","i"," ","E","l","i","m","i","n","a","t","o","r"," ","S","E"," ","4","0","0">>, FALSE>>,
    <<<<"K","a","w","a","s","a","k","i"," ","N","i","n","j","a"," ","4","0","0">>,
      <<"2","0","2","4"," ","K","a","w","a","s","a","k","i"," ","N","i","n","j","a"," ","2","5","0">>, FALSE>>,
    <<<<"B","M","W"," ","G"," ","3","1","0">>,
      <<"2","0","2","2"," ","B","M","W"," ","G"," ","3","1","0"," ","R","S"," ","S","p","o","r","t">>, TRUE>>,
    <<<<"B","M","W"," ","G"," ","3","1","0">>,
      <<"B","M","W"," ","G","3","1","0">>, TRUE>>,
    <<<<"B","M","W"," ","G"," ","3","1","0">>,
      <<"2","0","2","1"," ","b","m","w"," ","G","S"," ","3","1","0">>, FALSE>>,
    <<<<"B","M","W"," ","G"," ","3","1","0">>,
      <<"2","0","0","9"," ","B","M","W"," ","3","1","0"," ","/"," ","4","5"," ","/"," ","G","4","5","0">>, FALSE>>,
    <<<<"B","M","W"," ","G"," ","3","1","0">>,
      <<"B","M","W"," ","3","1","0">>, FALSE>>,
    <<<<"B","M","W"," ","G"," ","3","1","0">>,
      <<"B","M","W"," ","G","S"," ","3","1","0">>, FALSE>>,
    <<<<"B","M","W"," ","G","S"," ","3","1","0">>,
      <<"2","0","2","2"," ","B","m","w"," ","G","s"," ","3","1","0"," ","R","a","l","l","y","e"," ","L","i","m","i","t","e","d"," ","E","d","i","t","i","o","n">>, TRUE>>,
    <<<<"B","M","W"," ","G","S"," ","3","1","0">>,
      <<"B","M","W"," ","3","1","0">>, FALSE>>,
    <<<<"T","r","i","u","m","p","h"," ","S","c","r","a","m","b","l","e","r"," ","4","0","0">>,
      <<"2","0","2","5"," ","T","r","i","u","m","p","h"," ","S","c","r","a","m","b","l","e","r"," ","4","0","0">>, TRUE>>,
    <<<<"T","r","i","u","m","p","h"," ","S","c","r","a","m","b","l","e","r"," ","4","0","0">>,
      <<"T","r","i","u","m","p","h"," ","S","c","r","a","m","b","l","e","r">>, TRUE>>,
    <<<<"T","r","i","u","m","p","h"," ","S","c","r","a","m","b","l","e","r"," ","4","0","0">>,
      <<"T","r","i","u","m","p","h"," ","S","p","e","e","d"," ","4","0","0">>, FALSE>>,
    <<<<"D","u","c","a","t","i"," ","S","c","r","a","m","b","l","e","r">>,
      <<"2","0","1","5"," ","D","u","c","a","t","i"," ","S","c","r","a","m","b","l","e","r"," ","U","r","b","a","n"," ","E","n","d","u","r","o">>, TRUE>>,
    <<<<"D","u","c","a","t","i"," ","S","c","r","a","m","b","l","e","r">>,
      <<"2","0","1","5"," ","D","u","c","a","t","i"," ","X"," ","S","c","r","a","m","b","l","e","r">>, TRUE>>,
    <<<<"Y","a","m","a","h","a"," ","M","T","-","0","7">>,
      <<"2","0","2","5"," ","Y","a","m","a","h","a"," ","M","T","-","0","7">>, TRUE>>,
    <<<<"Y","a","m","a","h","a"," ","M","T","-","0","7">>,
      <<"Y","a","m","a","h","a"," ","M","T","0","7">>, TRUE>>,
    <<<<"Y","a","m","a","h","a"," ","M","T","-","0","7">>,
      <<"Y","a","m","a","h","a"," ","M","T","-","0","9">>, FALSE>>
  >>

MaxVariationWords == 3

\* words (the empty one gives doubled, leading and trailing spaces) a search
\* term handed to the variation generator is built from
VariationWords ==
  { <<"A","-","b">>, <<"1","2">>, <<"c","1">>, <<"x">>, <<"-">>, <<>> }

\* the search terms generate_search_variations is called with
VariationTerms ==
  Phrases(VariationWords, MaxVariationWords) \cup { TEST_CASES[i][1] : i \in DOMAIN TEST_CASES }

\* the (search_term, listing_title) pairs calls are made with
Inputs ==
  (SearchTerms \X Titles) \cup { <<TEST_CASES[i][1], TEST_CASES[i][2]>> : i \in DOMAIN TEST_CASES }

\* ------------------------------------------------------------------------
\* State: one pair of arguments and the calls made with it
\* ------------------------------------------------------------------------

\* relevant is the verdict of the last call named by fn (FALSE before any)
VARIABLES search_term, listing_title, fn, score, ret, min_match_ratio, relevant, scores

\* the list returned by generate_search_variations(search_term)
VARIABLES variations

\* one run of a tracker's scrape function on search_term: the tracker
\* (source), the position in its loops (pc, variation_index, element_count),
\* its locals search_variations, seen_ids and listings, the listing element
\* being processed (candidate) and the arguments of its call of
\* is_relevant_match (call)
VARIABLES source, pc, search_variations, variation_index, element_count,
          seen_ids, listings, candidate, call

\* repeated runs of main: the saved store (the listings file), what a run
\* loaded from it (previous), the scraped listings (current), what
\* process_listings returned (new_listings, price_drops), the position in
\* main (run_pc), the number of finished runs, whether the last
\* save_listings succeeded, and what the run before this one returned
VARIABLES store, previous, current, new_listings, price_drops, run_pc, runs, saved, earlier

\* one call of scrape_all_bikes_async, which builds current: the position
\* in it (async_pc, bike_index), the state of the tasks of the bike being
\* scraped, what each scrape_bike_async returned for each bike (results),
\* the order in which the tasks of each bike finished (completed) and the
\* scraper calls that raised
VARIABLES async_pc, bike_index, tasks, results, completed, raised

\* one call of fetch_all_listings (cache_webuycars.py): its position
\* (page_pc), its locals, and three records of what happened: the number of
\* pages requested, whether the page checked last had no listings, and the
\* ids handle_response has stored
VARIABLES page_pc, page_num, consecutive_empty_pages, max_wait, api_response_count,
          page_listings, all_listings, requests, previous_page_empty, captured

scorer_vars == <<listing_title, fn, score, ret, min_match_ratio, relevant, scores>>

generator_vars == <<variations>>

scrape_vars == <<source, pc, search_variations, variation_index, element_count,
                 seen_ids, listings, candidate, call>>

run_vars == <<store, previous, current, new_listings, price_drops, run_pc, runs, saved, earlier>>

async_vars == <<async_pc, bike_index, tasks, results, completed, raised>>

main_vars == <<run_vars, async_vars>>

cache_vars == <<page_pc, page_num, consecutive_empty_pages, max_wait, api_response_count,
                page_listings, all_listings, requests, previous_page_empty, captured>>

vars == <<search_term, scorer_vars, generator_vars, scrape_vars, main_vars, cache_vars>>

NoScore == <<0, 0>>

\* a data-adid / data-stocknumber attribute that is absent or empty
NoListingId == 0

NoElement == [id |-> NoListingId, title |-> <<>>, complete |-> FALSE]

NoCall == [search_term |-> <<>>, listing_title |-> <<>>, min_match_ratio |-> NoScore]

\* no scorer call has been made
ScorerIdle ==
  /\ fn = "none"
  /\ score = NoScore
  /\ ret = "none"
  /\ min_match_ratio = NoScore
  /\ relevant = FALSE
  /\ scores = {}

\* generate_search_variations has not been called
GeneratorIdle ==
  variations = <<>>

\* no scrape function has been called
ScrapeIdle ==
  /\ source = "none"
  /\ pc = "idle"
  /\ search_variations = <<>>
  /\ variation_index = 0
  /\ element_count = 0
  /\ seen_ids = {}
  /\ listings = <<>>
  /\ candidate = NoElement
  /\ call = NoCall

\* what a run knows of the run before it when there was none
NoRun == [returned |-> {}, new_listings |-> {}, saved |-> FALSE]

\* main has not run yet: the listings file holds {}
RunIdle ==
  /\ store = <<>>
  /\ previous = <<>>
  /\ current = <<>>
  /\ new_listings = {}
  /\ price_drops = {}
  /\ run_pc = "idle"
  /\ runs = 0
  /\ saved = FALSE
  /\ earlier = NoRun

\* scrape_all_bikes_async has not been called
AsyncIdle ==
  /\ async_pc = "idle"
  /\ bike_index = 0
  /\ tasks = <<>>
  /\ results = <<>>
  /\ completed = <<>>
  /\ raised = {}

\* fetch_all_listings has not been called
CacheIdle ==
  /\ page_pc = "idle"
  /\ page_num = 1
  /\ consecutive_empty_pages = 0
  /\ max_wait = 0
  /\ api_response_count = 0
  /\ page_listings = <<>>
  /\ all_listings = <<>>
  /\ requests = 0
  /\ previous_page_empty = FALSE
  /\ captured = {}

\* nothing of main.py runs
MainIdle ==
  /\ RunIdle
  /\ AsyncIdle

Init ==
  /\ \E p \in Inputs : search_term = p[1] /\ listing_title = p[2]
  /\ ScorerIdle
  /\ GeneratorIdle
  /\ ScrapeIdle
  /\ MainIdle
  /\ CacheIdle

\* a call of fuzzy_match_score(search_term, listing_title); scores collects
\* what the calls with these arguments have returned
FuzzyMatchScore ==
  /\ fn \in {"none", "fuzzy_match_score"}
  /\ \E head \in brand_choices(search_term) :
       LET r == fuzzy_match_score(search_term, listing_title, head)
       IN  /\ score' = r.score
           /\ ret' = r.ret
           /\ scores' = scores \cup {r.score}
  /\ fn' = "fuzzy_match_score"
  /\ UNCHANGED <<search_term, listing_title, min_match_ratio, relevant>>
  /\ UNCHANGED <<generator_vars, scrape_vars, main_vars, cache_vars>>

\* a call of is_relevant_match(search_term, listing_title, min_match_ratio)
IsRelevantMatch ==
  /\ fn = "none"
  /\ \E head \in brand_choices(search_term) :
       LET r == fuzzy_match_score(search_term, listing_title, head)
       IN  /\ score' = r.score
           /\ ret' = r.ret
           /\ scores' = scores \cup {r.score}
           /\ \E ratio \in MinMatchRatios :
                /\ min_match_ratio' = ratio
                /\ relevant' = is_relevant_match(search_term, listing_title, ratio, head)
  /\ fn' = "is_relevant_match"
  /\ UNCHANGED <<search_term, listing_title>>
  /\ UNCHANGED <<generator_vars, scrape_vars, main_vars, cache_vars>>

\* a call of utils.relevant_match.is_relevant_autotrader_match(listing_title, search_term)
IsRelevantAutotraderMatch ==
  /\ fn = "none"
  /\ relevant' = is_relevant_autotrader_match(listing_title, search_term)
  /\ fn' = "is_relevant_autotrader_match"
  /\ UNCHANGED <<search_term, listing_title, score, ret, min_match_ratio, scores>>
  /\ UNCHANGED <<generator_vars, scrape_vars, main_vars, cache_vars>>

\* a call of the tracker's own is_relevant_autotrader_match(title, search_term)
TrackerIsRelevantAutotraderMatch ==
  /\ fn = "none"
  /\ relevant' = tracker_is_relevant_autotrader_match(listing_title, search_term)
  /\ fn' = "tracker_is_relevant_autotrader_match"
  /\ UNCHANGED <<search_term, listing_title, score, ret, min_match_ratio, scores>>
  /\ UNCHANGED <<generator_vars, scrape_vars, main_vars, cache_vars>>

Next ==
  \/ FuzzyMatchScore
  \/ IsRelevantMatch
  \/ IsRelevantAutotraderMatch
  \/ TrackerIsRelevantAutotraderMatch

Spec == Init /\ [][Next]_vars

\* ------------------------------------------------------------------------
\* Calls of generate_search_variations
\* ------------------------------------------------------------------------

VariationInit ==
  /\ search_term \in VariationTerms
  /\ listing_title = <<>>
  /\ ScorerIdle
  /\ GeneratorIdle
  /\ ScrapeIdle
  /\ MainIdle
  /\ CacheIdle

\* a call of generate_search_variations(search_term)
GenerateSearchVariations ==
  /\ fn = "none"
  /\ variations' = generate_search_variations(search_term)
  /\ fn' = "generate_search_variations"
  /\ UNCHANGED <<search_term, listing_title, score, ret, min_match_ratio, relevant, scores>>
  /\ UNCHANGED <<scrape_vars, main_vars, cache_vars>>

VariationNext ==
  GenerateSearchVariations

VariationSpec == VariationInit /\ [][VariationNext]_vars

\* ------------------------------------------------------------------------
\* Trackers: scrape_gumtree and scrape_webuycars (src/trackers)
\* ------------------------------------------------------------------------

\* most listing elements processed on one result page
MaxElements == 2

\* the values of data-adid and data-stocknumber found on result pages
ListingIds == {1, 2}

GUMTREE_SOURCE == "Gumtree"

WEBUYCARS_SOURCE == "WeBuyCars"

AUTOTRADER_SOURCE == "AutoTrader"

\* f"gt_{listing_id}" and f"wbc_{listing_id}"
GUMTREE_ID_PREFIX == <<"g","t","_">>

WEBUYCARS_ID_PREFIX == <<"w","b","c","_">>

prefixed_id(prefix, id) ==
  <<prefix, id>>

\* scrape_autotrader takes the id from the link and adds no prefix:
\* href.split("/")[-1].split("?")[0]
AUTOTRADER_ID_PREFIX == <<>>

already_seen_never(listing_id, ids) ==
  FALSE

\* the duplicate check: listing_id in seen_ids
already_seen(listing_id, ids) ==
  listing_id \in ids

\* str.strip() leaves nothing: the text holds whitespace only
is_blank(text) ==
  \A i \in DOMAIN text : IsSpace(text[i])

\* create_listing: the fields of the standardized listing dictionary that
\* depend on the scrape call's inputs (titles reach it already stripped by
\* get_text(strip=True), so title.strip() leaves them as they are)
create_listing(listing_id, title, term, site) ==
  [id |-> listing_id, title |-> title, search_term |-> term, source |-> site]

\* listings[listing_id] = listing
listings_put(dict, listing_id, listing) ==
  [k \in (DOMAIN dict) \cup {listing_id} |-> IF k = listing_id THEN listing ELSE dict[k]]

\* the arguments scrape_gumtree passes to is_relevant_match
gumtree_call(term, title) ==
  [search_term |-> term, listing_title |-> title,
   min_match_ratio |-> MATCH_THRESHOLDS.gumtree]

\* the arguments scrape_webuycars passes to is_relevant_match: the title
\* comes first, in the search-term position
webuycars_call(term, title) ==
  [search_term |-> title, listing_title |-> term,
   min_match_ratio |-> WEBUYCARS_MIN_MATCH_RATIO]

\* the outcomes of is_relevant_match for the arguments of one call
call_results(args) ==
  { is_relevant_match(args.search_term, args.listing_title, args.min_match_ratio, head) :
      head \in brand_choices(args.search_term) }

\* search terms the scrape functions are called with
ScrapeTerms ==
  { <<>>, <<" ">>, <<"x">>, TEST_CASES[14][1] }

\* titles found in listing elements; <<>> stands for a missing title
ElementTitles ==
  { <<>>, TEST_CASES[14][2], TEST_CASES[15][2] }

\* listing elements of a result page: complete says
\* whether the price and link the tracker requires are present
Elements ==
  [id : ListingIds \cup {NoListingId}, title : ElementTitles, complete : BOOLEAN]

ScrapeInit ==
  /\ search_term \in ScrapeTerms
  /\ listing_title = <<>>
  /\ ScorerIdle
  /\ GeneratorIdle
  /\ ScrapeIdle
  /\ MainIdle
  /\ CacheIdle

\* entry of scrape_gumtree / scrape_webuycars up to the variation loop
StartScrape(site) ==
  /\ pc = "idle"
  /\ source' = site
  /\ IF search_term = <<>> \/ is_blank(search_term)
     THEN /\ pc' = "done"
          /\ UNCHANGED <<search_variations, variation_index>>
     ELSE /\ pc' = "variation"
          /\ search_variations' = generate_search_variations(search_term)
          /\ variation_index' = 1
  /\ UNCHANGED <<element_count, seen_ids, listings, candidate, call>>
  /\ UNCHANGED <<search_term, scorer_vars, generator_vars, main_vars, cache_vars>>

\* entry of scrape_autotrader up to fetch_page: one page is fetched, for the
\* search term itself
StartScrapeAutotrader ==
  /\ pc = "idle"
  /\ source' = AUTOTRADER_SOURCE
  /\ IF ~validate_search_term(search_term)
     THEN /\ pc' = "done"
          /\ UNCHANGED <<search_variations, variation_index>>
     ELSE /\ pc' = "variation"
          /\ search_variations' = <<search_term>>
          /\ variation_index' = 1
  /\ UNCHANGED <<element_count, seen_ids, listings, candidate, call>>
  /\ UNCHANGED <<search_term, scorer_vars, generator_vars, main_vars, cache_vars>>

\* fetch_page returned nothing or the page holds no listing element: continue
SkipVariation ==
  /\ pc = "variation"
  /\ variation_index <= Len(search_variations)
  /\ variation_index' = variation_index + 1
  /\ UNCHANGED <<source, pc, search_variations, element_count, seen_ids, listings,
                 candidate, call>>
  /\ UNCHANGED <<search_term, scorer_vars, generator_vars, main_vars, cache_vars>>

\* the page of the current variation holds listing elements: enter the
\* element loop
FetchPage ==
  /\ pc = "variation"
  /\ variation_index <= Len(search_variations)
  /\ pc' = "elements"
  /\ element_count' = 0
  /\ UNCHANGED <<source, search_variations, variation_index, seen_ids, listings,
                 candidate, call>>
  /\ UNCHANGED <<search_term, scorer_vars, generator_vars, main_vars, cache_vars>>

\* one iteration of the element loop of scrape_gumtree
GumtreeElement(listing_elem) ==
  /\ pc = "elements"
  /\ source = GUMTREE_SOURCE
  /\ element_count < MaxElements
  /\ listing_elem.id # NoListingId
  /\ element_count' = element_count + 1
  /\ candidate' = listing_elem
  /\ LET listing_id == prefixed_id(GUMTREE_ID_PREFIX, listing_elem.id)
         args == gumtree_call(search_term, listing_elem.title)
     IN  IF listing_elem.title = <<>> \/ ~listing_elem.complete
            \/ already_seen(listing_id, seen_ids)
         THEN /\ call' = NoCall
              /\ UNCHANGED <<seen_ids, listings>>
         ELSE /\ seen_ids' = seen_ids \cup {listing_id}
              /\ call' = args
              /\ \E is_relevant \in call_results(args) :
                   listings' =
                     IF is_relevant
                     THEN listings_put(listings, listing_id,
                            create_listing(listing_id, listing_elem.title, search_term,
                                           GUMTREE_SOURCE))
                     ELSE listings
  /\ UNCHANGED <<source, pc, search_variations, variation_index>>
  /\ UNCHANGED <<search_term, scorer_vars, generator_vars, main_vars, cache_vars>>

\* one iteration of the element loop of scrape_webuycars
WebuycarsElement(listing_elem) ==
  /\ pc = "elements"
  /\ source = WEBUYCARS_SOURCE
  /\ element_count < MaxElements
  /\ element_count' = element_count + 1
  /\ candidate' = listing_elem
  /\ LET listing_id == prefixed_id(WEBUYCARS_ID_PREFIX, listing_elem.id)
         args == webuycars_call(search_term, listing_elem.title)
     IN  IF listing_elem.id = NoListingId \/ already_seen(listing_id, seen_ids)
         THEN /\ call' = NoCall
              /\ UNCHANGED <<seen_ids, listings>>
         ELSE /\ seen_ids' = seen_ids \cup {listing_id}
              /\ IF listing_elem.title = <<>>
                 THEN /\ call' = NoCall
                      /\ UNCHANGED listings
                 ELSE /\ call' = args
                      /\ \E is_relevant \in call_results(args) :
                           listings' =
                             IF is_relevant /\ listing_elem.complete
                             THEN listings_put(listings, listing_id,
                                    create_listing(listing_id, listing_elem.title,
                                                   search_term, WEBUYCARS_SOURCE))
                             ELSE listings
  /\ UNCHANGED <<source, pc, search_variations, variation_index>>
  /\ UNCHANGED <<search_term, scorer_vars, generator_vars, main_vars, cache_vars>>

\* one iteration of the element loop of scrape_autotrader
AutotraderElement(listing_elem) ==
  /\ pc = "elements"
  /\ source = AUTOTRADER_SOURCE
  /\ element_count < MaxElements
  /\ element_count' = element_count + 1
  /\ candidate' = listing_elem
  /\ call' = NoCall
  /\ LET listing_id == prefixed_id(AUTOTRADER_ID_PREFIX, listing_elem.id)
         title      == listing_elem.title
     IN  IF \/ (title # <<>> /\ ~tracker_is_relevant_autotrader_match(title, search_term))
            \/ listing_elem.id = NoListingId \/ title = <<>> \/ ~listing_elem.complete
            \/ already_seen(listing_id, seen_ids)
         THEN UNCHANGED <<seen_ids, listings>>
         ELSE /\ seen_ids' = seen_ids \cup {listing_id}
              /\ listings' =
                   IF base_is_relevant_match(title, search_term, AUTOTRADER_WORD_RATIO)
                   THEN listings_put(listings, listing_id,
                          create_listing(listing_id, title, search_term, AUTOTRADER_SOURCE))
                   ELSE listings
  /\ UNCHANGED <<source, pc, search_variations, variation_index>>
  /\ UNCHANGED <<search_term, scorer_vars, generator_vars, main_vars, cache_vars>>

\* the element loop is exhausted: on to the next variation
EndOfPage ==
  /\ pc = "elements"
  /\ element_count >= 1
  /\ pc' = "variation"
  /\ variation_index' = variation_index + 1
  /\ UNCHANGED <<source, search_variations, element_count, seen_ids, listings,
                 candidate, call>>
  /\ UNCHANGED <<search_term, scorer_vars, generator_vars, main_vars, cache_vars>>

\* the variation loop is exhausted: return listings
ReturnListings ==
  /\ pc = "variation"
  /\ variation_index > Len(search_variations)
  /\ pc' = "done"
  /\ UNCHANGED <<source, search_variations, variation_index, element_count, seen_ids,
                 listings, candidate, call>>
  /\ UNCHANGED <<search_term, scorer_vars, generator_vars, main_vars, cache_vars>>

ScrapeNext ==
  \/ \E site \in {GUMTREE_SOURCE, WEBUYCARS_SOURCE} : StartScrape(site)
  \/ StartScrapeAutotrader
  \/ SkipVariation
  \/ FetchPage
  \/ \E listing_elem \in Elements : GumtreeElement(listing_elem)
  \/ \E listing_elem \in Elements : WebuycarsElement(listing_elem)
  \/ \E listing_elem \in Elements : AutotraderElement(listing_elem)
  \/ EndOfPage
  \/ ReturnListings

ScrapeSpec == ScrapeInit /\ [][ScrapeNext]_vars

\* ------------------------------------------------------------------------
\* Repeated runs of main (src/main.py)
\* ------------------------------------------------------------------------

\* most runs of main in one behaviour
MaxRuns == 2

\* the bikes of bikes.txt
Bikes ==
  { TEST_CASES[14][1], TEST_CASES[8][1] }

\* listing ids the sites return, with the source their scraper stamps on them
ListingSources ==
  ("gt_1" :> GUMTREE_SOURCE) @@ ("wbc_1" :> WEBUYCARS_SOURCE) @@ ("at_1" :> AUTOTRADER_SOURCE)

PRICE_HIGH == <<"R"," ","8","5",",","0","0","0">>

PRICE_LOW == <<"R"," ","7","9",",","0","0","0">>

PRICE_HIGH_PLAIN == <<"8","5","0","0","0">>

PRICE_ON_REQUEST == <<"P","O","A">>

\* the prices a site may show for a listing found for a bike; a listing a
\* search does not find has no entry
Offers ==
  (<<TEST_CASES[14][1], "gt_1">>  :> { PRICE_HIGH, PRICE_LOW, PRICE_HIGH_PLAIN, PRICE_ON_REQUEST })
  @@ (<<TEST_CASES[14][1], "wbc_1">> :> { PRICE_HIGH })
  @@ (<<TEST_CASES[14][1], "at_1">>  :> { PRICE_HIGH })
  @@ (<<TEST_CASES[8][1], "gt_1">>   :> { PRICE_LOW })

\* what one run finds: for every offer the price shown, or NONE when the
\* listing is not found
Findings ==
  { f \in [DOMAIN Offers -> UNION { Offers[o] : o \in DOMAIN Offers } \cup {NONE}] :
      \A o \in DOMAIN Offers : f[o] \in Offers[o] \cup {NONE} }

\* the value scrape_all_bikes_async returns for what the run finds: for
\* every bike the listings found, as the scrapers build them
scrape_result(found) ==
  [bike \in Bikes |->
     [listing_id \in { i \in DOMAIN ListingSources :
                         <<bike, i>> \in DOMAIN found /\ found[<<bike, i>>] # NONE } |->
        scraped_listing(listing_id, ListingSources[listing_id], found[<<bike, listing_id>>])]]

\* the listings of a scrape result, each named by bike and id
returned_listings(scraped) ==
  UNION { { <<bike, listing_id>> : listing_id \in DOMAIN scraped[bike] } : bike \in DOMAIN scraped }

\* the listings file a run leaves when it finds `found`, starts from the
\* file `stored` and its save succeeds
file_after_run(found, stored) ==
  listings_to_save(process_listings(scrape_result(found), stored).current, stored)

\* a run that finds one listing, at the given price
one_found(offer, price) ==
  [o \in DOMAIN Offers |-> IF o = offer THEN price ELSE NONE]

\* the listings file when the behaviour starts: empty, or as two earlier
\* runs left it that found one Gumtree listing, the second at a lower price
StoredFiles ==
  { <<>>,
    file_after_run(one_found(<<TEST_CASES[14][1], "gt_1">>, PRICE_LOW),
                   file_after_run(one_found(<<TEST_CASES[14][1], "gt_1">>, PRICE_HIGH), <<>>)) }

RunInit ==
  /\ search_term = <<>>
  /\ listing_title = <<>>
  /\ ScorerIdle
  /\ GeneratorIdle
  /\ ScrapeIdle
  /\ store \in StoredFiles
  /\ previous = <<>>
  /\ current = <<>>
  /\ new_listings = {}
  /\ price_drops = {}
  /\ run_pc = "idle"
  /\ runs = 0
  /\ saved = FALSE
  /\ earlier = NoRun
  /\ AsyncIdle
  /\ CacheIdle

\* main: previous = load_previous_listings()
LoadPreviousListings ==
  /\ run_pc = "idle"
  /\ runs < MaxRuns
  /\ previous' = store
  /\ earlier' = IF runs = 0 THEN NoRun
                ELSE [returned |-> returned_listings(current), new_listings |-> new_listings,
                      saved |-> saved]
  /\ run_pc' = "scrape"
  /\ UNCHANGED <<store, current, new_listings, price_drops, runs, saved>>
  /\ UNCHANGED <<search_term, scorer_vars, generator_vars, scrape_vars, async_vars, cache_vars>>

\* main: current = await scrape_all_bikes_async(bikes)
ScrapeAllBikes ==
  /\ run_pc = "scrape"
  /\ \E found \in Findings : current' = scrape_result(found)
  /\ run_pc' = "process"
  /\ UNCHANGED <<store, previous, new_listings, price_drops, runs, saved, earlier>>
  /\ UNCHANGED <<search_term, scorer_vars, generator_vars, scrape_vars, async_vars, cache_vars>>

\* main: new_listings, price_drops = process_listings(current, previous)
ProcessListings ==
  /\ run_pc = "process"
  /\ LET result == process_listings(current, previous)
     IN  /\ current' = result.current
         /\ new_listings' = result.all_new_listings
         /\ price_drops' = result.all_price_drops
  /\ run_pc' = "save"
  /\ UNCHANGED <<store, previous, runs, saved, earlier>>
  /\ UNCHANGED <<search_term, scorer_vars, generator_vars, scrape_vars, async_vars, cache_vars>>

\* main: stale clean-up, merge and save_listings, which writes the file or
\* fails and leaves it as it was
SaveListings ==
  /\ run_pc = "save"
  /\ \E written \in BOOLEAN :
       /\ saved' = written
       /\ store' = IF written THEN listings_to_save(current, previous) ELSE store
  /\ runs' = runs + 1
  /\ run_pc' = "idle"
  /\ UNCHANGED <<previous, current, new_listings, price_drops, earlier>>
  /\ UNCHANGED <<search_term, scorer_vars, generator_vars, scrape_vars, async_vars, cache_vars>>

RunNext ==
  \/ LoadPreviousListings
  \/ ScrapeAllBikes
  \/ ProcessListings
  \/ SaveListings

RunSpec == RunInit /\ [][RunNext]_vars

\* ------------------------------------------------------------------------
\* scrape_all_bikes_async (src/main.py)
\* ------------------------------------------------------------------------

\* the bikes in the order of bikes.txt
BikeList ==
  << TEST_CASES[14][1], TEST_CASES[8][1] >>

\* the dictionaries a scraper can return for a bike; the id AutoTrader takes
\* from the link has no prefix of its own and can be any text
ScraperResults ==
  [ scrape_autotrader |->
      { <<>>,
        ("at_1" :> scraped_listing("at_1", AUTOTRADER_SOURCE, PRICE_HIGH)),
        ("gt_1" :> scraped_listing("gt_1", AUTOTRADER_SOURCE, PRICE_HIGH)) },
    scrape_gumtree |->
      { <<>>, ("gt_1" :> scraped_listing("gt_1", GUMTREE_SOURCE, PRICE_LOW)) },
    scrape_webuycars_cached |->
      { <<>>, ("wbc_1" :> scraped_listing("wbc_1", WEBUYCARS_SOURCE, PRICE_HIGH)) } ]

\* what a scraper can raise
ScraperErrors ==
  { "Exception" }

AsyncInit ==
  /\ search_term = <<>>
  /\ listing_title = <<>>
  /\ ScorerIdle
  /\ GeneratorIdle
  /\ ScrapeIdle
  /\ MainIdle
  /\ CacheIdle

\* scrape_all_bikes_async is called: current = {}
StartScrapeAllBikes ==
  /\ async_pc = "idle"
  /\ async_pc' = "loop"
  /\ bike_index' = 1
  /\ current' = <<>>
  /\ UNCHANGED <<tasks, results, completed, raised>>
  /\ UNCHANGED <<store, previous, new_listings, price_drops, run_pc, runs, saved, earlier>>
  /\ UNCHANGED <<search_term, scorer_vars, generator_vars, scrape_vars, cache_vars>>

\* the next bike: one task per scraper is created and handed to gather
CreateTasks ==
  /\ async_pc = "loop"
  /\ bike_index <= Len(BikeList)
  /\ async_pc' = "gather"
  /\ tasks' = [s \in Range(SCRAPERS) |-> "running"]
  /\ results' = (BikeList[bike_index] :> [s \in Range(SCRAPERS) |-> EMPTY_RESULT]) @@ results
  /\ completed' = (BikeList[bike_index] :> <<>>) @@ completed
  /\ UNCHANGED <<bike_index, raised>>
  /\ UNCHANGED run_vars
  /\ UNCHANGED <<search_term, scorer_vars, generator_vars, scrape_vars, cache_vars>>

\* a scraper returns in its pool thread and scrape_bike_async returns its
\* listings
ScraperReturns(scraper, listings_found) ==
  /\ async_pc = "gather"
  /\ tasks[scraper] = "running"
  /\ listings_found \in ScraperResults[scraper]
  /\ tasks' = [tasks EXCEPT ![scraper] = "done"]
  /\ results' = [results EXCEPT ![BikeList[bike_index]][scraper] = listings_found]
  /\ completed' = [completed EXCEPT ![BikeList[bike_index]] = Append(@, scraper)]
  /\ UNCHANGED <<async_pc, bike_index, raised>>
  /\ UNCHANGED run_vars
  /\ UNCHANGED <<search_term, scorer_vars, generator_vars, scrape_vars, cache_vars>>

\* a scraper raises in its pool thread: scrape_bike_async returns {} when
\* it catches the error; otherwise gather raises it into
\* scrape_all_bikes_async, which ends there
ScraperRaises(scraper, error) ==
  /\ async_pc = "gather"
  /\ tasks[scraper] = "running"
  /\ raised' = raised \cup { <<BikeList[bike_index], scraper>> }
  /\ IF caught(error)
     THEN /\ tasks' = [tasks EXCEPT ![scraper] = "done"]
          /\ results' = [results EXCEPT ![BikeList[bike_index]][scraper] = EMPTY_RESULT]
          /\ completed' = [completed EXCEPT ![BikeList[bike_index]] = Append(@, scraper)]
          /\ UNCHANGED async_pc
     ELSE /\ async_pc' = "failed"
          /\ UNCHANGED <<tasks, results, completed>>
  /\ UNCHANGED bike_index
  /\ UNCHANGED run_vars
  /\ UNCHANGED <<search_term, scorer_vars, generator_vars, scrape_vars, cache_vars>>

\* gather returns when every task has finished; the results are merged
\* into bike_listings and stored under the bike
MergeResults ==
  /\ async_pc = "gather"
  /\ \A s \in Range(SCRAPERS) : tasks[s] = "done"
  /\ LET bike == BikeList[bike_index]
     IN  current' = (bike :> update_all(<<>>, gathered(results[bike], completed[bike]))) @@ current
  /\ bike_index' = bike_index + 1
  /\ async_pc' = "loop"
  /\ UNCHANGED <<tasks, results, completed, raised>>
  /\ UNCHANGED <<store, previous, new_listings, price_drops, run_pc, runs, saved, earlier>>
  /\ UNCHANGED <<search_term, scorer_vars, generator_vars, scrape_vars, cache_vars>>

\* the loop over the bikes is exhausted: return current
ReturnCurrent ==
  /\ async_pc = "loop"
  /\ bike_index > Len(BikeList)
  /\ async_pc' = "done"
  /\ UNCHANGED <<bike_index, tasks, results, completed, raised>>
  /\ UNCHANGED run_vars
  /\ UNCHANGED <<search_term, scorer_vars, generator_vars, scrape_vars, cache_vars>>

AsyncNext ==
  \/ StartScrapeAllBikes
  \/ CreateTasks
  \/ \E scraper \in Range(SCRAPERS) : \E listings_found \in ScraperResults[scraper] :
       ScraperReturns(scraper, listings_found)
  \/ \E scraper \in Range(SCRAPERS) : \E error \in ScraperErrors : ScraperRaises(scraper, error)
  \/ MergeResults
  \/ ReturnCurrent

AsyncSpec == AsyncInit /\ [][AsyncNext]_vars

\* ------------------------------------------------------------------------
\* fetch_all_listings (src/cache_webuycars.py)
\* ------------------------------------------------------------------------

\* API responses handled during one page beyond which the model does not go
MaxResponses == 2

\* the listing ids the API responses can carry
CacheIds ==
  { "webuycars_1", "webuycars_2" }

\* fetch_all_listings up to the start of the pagination loop
PaginationInit ==
  /\ search_term = <<>>
  /\ listing_title = <<>>
  /\ ScorerIdle
  /\ GeneratorIdle
  /\ ScrapeIdle
  /\ MainIdle
  /\ page_pc = "loop"
  /\ page_num = 1
  /\ consecutive_empty_pages = 0
  /\ max_wait = 0
  /\ api_response_count = 0
  /\ page_listings = <<>>
  /\ all_listings = <<>>
  /\ requests = 0
  /\ previous_page_empty = FALSE
  /\ captured = {}

\* the loop goes round: page_listings.clear(), api_response_count = 0 and
\* page.goto is called
RequestPage ==
  /\ page_pc = "loop"
  /\ more_pages(page_num)
  /\ page_listings' = <<>>
  /\ api_response_count' = 0
  /\ requests' = requests + 1
  /\ page_pc' = "goto"
  /\ UNCHANGED <<page_num, consecutive_empty_pages, max_wait, all_listings,
                 previous_page_empty, captured>>
  /\ UNCHANGED <<search_term, scorer_vars, generator_vars, scrape_vars, main_vars>>

\* the loop condition fails: the try block is left
PagesExhausted ==
  /\ page_pc = "loop"
  /\ ~ more_pages(page_num)
  /\ page_pc' = "closed"
  /\ UNCHANGED <<page_num, consecutive_empty_pages, max_wait, api_response_count,
                 page_listings, all_listings, requests, previous_page_empty, captured>>
  /\ UNCHANGED <<search_term, scorer_vars, generator_vars, scrape_vars, main_vars>>

\* handle_response, run while page.goto or page.wait_for_timeout is in
\* progress, on an API response that stores nothing: status not 200, no
\* JSON, an empty data array, or items that are all skipped
ResponseSkipped ==
  /\ page_pc \in {"goto", "wait"}
  /\ api_response_count < MaxResponses
  /\ api_response_count' = api_response_count + 1
  /\ UNCHANGED <<page_pc, page_num, consecutive_empty_pages, max_wait, page_listings,
                 all_listings, requests, previous_page_empty, captured>>
  /\ UNCHANGED <<search_term, scorer_vars, generator_vars, scrape_vars, main_vars>>

\* handle_response on an API response whose items are stored under ids
ResponseCaptured(ids) ==
  /\ page_pc \in {"goto", "wait"}
  /\ api_response_count < MaxResponses
  /\ ids # {}
  /\ api_response_count' = api_response_count + 1
  /\ all_listings' = store_items(all_listings, ids)
  /\ page_listings' = store_items(page_listings, ids)
  /\ captured' = captured \cup ids
  /\ UNCHANGED <<page_pc, page_num, consecutive_empty_pages, max_wait, requests,
                 previous_page_empty>>
  /\ UNCHANGED <<search_term, scorer_vars, generator_vars, scrape_vars, main_vars>>

\* page.goto returns, or raises and the error is logged: max_wait = 0
GotoReturns ==
  /\ page_pc = "goto"
  /\ max_wait' = 0
  /\ page_pc' = "poll"
  /\ UNCHANGED <<page_num, consecutive_empty_pages, api_response_count, page_listings,
                 all_listings, requests, previous_page_empty, captured>>
  /\ UNCHANGED <<search_term, scorer_vars, generator_vars, scrape_vars, main_vars>>

\* the polling loop goes round: page.wait_for_timeout(500) is called
WaitForTimeout ==
  /\ page_pc = "poll"
  /\ keep_waiting(max_wait, api_response_count)
  /\ page_pc' = "wait"
  /\ UNCHANGED <<page_num, consecutive_empty_pages, max_wait, api_response_count,
                 page_listings, all_listings, requests, previous_page_empty, captured>>
  /\ UNCHANGED <<search_term, scorer_vars, generator_vars, scrape_vars, main_vars>>

\* page.wait_for_timeout returns: max_wait += 0.5
WaitReturns ==
  /\ page_pc = "wait"
  /\ max_wait' = max_wait + 1
  /\ page_pc' = "poll"
  /\ UNCHANGED <<page_num, consecutive_empty_pages, api_response_count, page_listings,
                 all_listings, requests, previous_page_empty, captured>>
  /\ UNCHANGED <<search_term, scorer_vars, generator_vars, scrape_vars, main_vars>>

\* page.wait_for_timeout raises: the outer except logs the error
WaitRaises ==
  /\ page_pc = "wait"
  /\ page_pc' = "closed"
  /\ UNCHANGED <<page_num, consecutive_empty_pages, max_wait, api_response_count,
                 page_listings, all_listings, requests, previous_page_empty, captured>>
  /\ UNCHANGED <<search_term, scorer_vars, generator_vars, scrape_vars, main_vars>>

\* the polling loop ends and the page is checked: an empty page is counted
\* and the loop is left at the second in a row; otherwise page_num += 1
CheckPage ==
  /\ page_pc = "poll"
  /\ ~ keep_waiting(max_wait, api_response_count)
  /\ previous_page_empty' = (page_listings = <<>>)
  /\ IF page_listings = <<>>
     THEN /\ consecutive_empty_pages' = consecutive_empty_pages + 1
          /\ IF enough_empty_pages(consecutive_empty_pages + 1)
             THEN /\ page_pc' = "closed"
                  /\ UNCHANGED page_num
             ELSE /\ page_pc' = "loop"
                  /\ page_num' = page_num + 1
     ELSE /\ consecutive_empty_pages' = 0
          /\ page_pc' = "loop"
          /\ page_num' = page_num + 1
  /\ UNCHANGED <<max_wait, api_response_count, page_listings, all_listings, requests,
                 captured>>
  /\ UNCHANGED <<search_term, scorer_vars, generator_vars, scrape_vars, main_vars>>

\* finally: browser.close(); return all_listings
ReturnAllListings ==
  /\ page_pc = "closed"
  /\ page_pc' = "returned"
  /\ UNCHANGED <<page_num, consecutive_empty_pages, max_wait, api_response_count,
                 page_listings, all_listings, requests, previous_page_empty, captured>>
  /\ UNCHANGED <<search_term, scorer_vars, generator_vars, scrape_vars, main_vars>>

PaginationNext ==
  \/ RequestPage
  \/ PagesExhausted
  \/ ResponseSkipped
  \/ \E ids \in SUBSET CacheIds : ResponseCaptured(ids)
  \/ GotoReturns
  \/ WaitForTimeout
  \/ WaitReturns
  \/ WaitRaises
  \/ CheckPage
  \/ ReturnAllListings

\* the function runs on one thread and every call it makes returns or
\* raises within its timeout, so a step that can be taken is taken
PaginationSpec == PaginationInit /\ [][PaginationNext]_vars /\ WF_vars(PaginationNext)

TypeOK ==
  /\ fn \in {"none", "fuzzy_match_score", "is_relevant_match",
             "is_relevant_autotrader_match", "tracker_is_relevant_autotrader_match",
             "generate_search_variations"}
  /\ ret \in {"none", "substring", "no_words", "brand", "number", "blend"}
  /\ relevant \in BOOLEAN
  /\ source \in {"none", GUMTREE_SOURCE, WEBUYCARS_SOURCE, AUTOTRADER_SOURCE}
  /\ pc \in {"idle", "variation", "elements", "done"}
  /\ variation_index \in 0..(Len(search_variations) + 1)
  /\ element_count \in 0..MaxElements
  /\ candidate \in Elements
  /\ run_pc \in {"idle", "scrape", "process", "save"}
  /\ runs \in 0..MaxRuns
  /\ saved \in BOOLEAN
  /\ async_pc \in {"idle", "loop", "gather", "done", "failed"}
  /\ bike_index \in 0..(Len(BikeList) + 1)
  /\ page_pc \in {"idle", "loop", "goto", "poll", "wait", "closed", "returned"}
  /\ page_num \in 1..(max_pages + 1)
  /\ consecutive_empty_pages \in 0..2
  /\ max_wait \in 0..MAX_WAIT_HALVES
  /\ api_response_count \in 0..MaxResponses
  /\ DOMAIN page_listings \subseteq DOMAIN all_listings
  /\ DOMAIN all_listings \subseteq CacheIds

\* ------------------------------------------------------------------------
\* Properties
\* ------------------------------------------------------------------------

\* the last call returned a score of fuzzy_match_score for the current arguments
ScoreReturned ==
  fn \in {"fuzzy_match_score", "is_relevant_match"}

\* the last call was one of the two copies of is_relevant_autotrader_match
AutotraderReturned ==
  fn \in {"is_relevant_autotrader_match", "tracker_is_relevant_autotrader_match"}

SearchNorm ==
  normalize_text(search_term)

TitleNorm ==
  normalize_text(listing_title)

\* the arguments are the given case of the tuning corpus
IsCase(i) ==
  search_term = TEST_CASES[i][1] /\ listing_title = TEST_CASES[i][2]

\* C1: whenever the normalized search term is a substring of the normalized
\* title, or the normalized title a substring of the normalized search term,
\* fuzzy_match_score returns exactly 1.0.
C1_SubstringScoresOne ==
  (ScoreReturned /\ (contains(TitleNorm, SearchNorm) \/ contains(SearchNorm, TitleNorm)))
    => score = <<1, 1>>

\* C1 witness: a call returned 1.0 for a title whose normalized form lies
\* strictly inside the normalized search term (the "vice versa" direction).
C1_Witness ==
  /\ fn = "fuzzy_match_score"
  /\ contains(SearchNorm, TitleNorm)
  /\ ~contains(TitleNorm, SearchNorm)
  /\ TitleNorm # <<>>
  /\ score = <<1, 1>>

\* C2: when the first whitespace-separated token of the search term does not
\* appear among the word tokens of the title, fuzzy_match_score returns
\* exactly 0.1.  Stated for the calls that reach the brand gate (neither the
\* substring shortcut nor the empty-token return was taken), with the first
\* token normalized the way the title's tokens are.
C2_FirstTokenBrandGate ==
  (/\ ScoreReturned
   /\ ret \in {"brand", "number", "blend"}
   /\ split(search_term) # <<>>
   /\ normalize_text(split(search_term)[1]) \notin get_word_tokens(listing_title))
    => score = <<1, 10>>

C4_Deterministic ==
  Cardinality(scores) <= 1

\* C5: every score fuzzy_match_score returns lies in [0.0, 1.0].
C5_ScoreInUnitInterval ==
  ScoreReturned => (FracGE(score, <<0, 1>>) /\ FracGE(<<1, 1>>, score))

\* C5 witness: a score produced by the weighted blend, strictly between the
\* number-gate constant and 1.
C5_Witness ==
  /\ fn = "fuzzy_match_score"
  /\ ret = "blend"
  /\ FracLT(<<3, 20>>, score)
  /\ FracLT(score, <<1, 1>>)

\* some model word (a token after the brand) contains a digit
ModelWordWithDigit ==
  \E i \in 2..Len(split(search_term)) :
    \E k \in DOMAIN split(search_term)[i] : IsDigit(split(search_term)[i][k])

\* some model word is a number: only digits once ',' and '.' are removed
ModelWordIsNumber ==
  \E i \in 2..Len(split(search_term)) :
    LET w == SelectSeq(split(search_term)[i], LAMBDA c : c \notin {",", "."})
    IN  w # <<>> /\ \A k \in DOMAIN w : IsDigit(w[k])

\* the title shares no digit run with the model part of the search term
NoSharedDigitRun ==
  findall_digit_runs(lower(split_rest(search_term))) \cap findall_digit_runs(listing_title) = {}

C7_GS310Rejected ==
  (AutotraderReturned /\ IsCase(15)) => relevant = FALSE

\* C8: fuzzy_match_score("Kawasaki Ninja 400", "Kawasaki KFX 400") is below
\* 0.40 on every evaluation.
C8_KFX400BelowGumtreeThreshold ==
  (ScoreReturned /\ IsCase(10)) => FracLT(score, MATCH_THRESHOLDS.gumtree)

\* C9: fuzzy_match_score("Suzuki DS 250 SX V-STROM", "Suzuki 250 V-Strom") is
\* at least 0.4575 on every evaluation.
C9_VStromAboveEveryThreshold ==
  (ScoreReturned /\ IsCase(1)) => FracGE(score, MATCH_THRESHOLDS.webuycars)

\* C10: is_relevant_match("Honda CB500X", "2014 Honda CRF", 0.50) returns
\* False on every evaluation.
C10_HondaCRFNotRelevant ==
  (fn = "is_relevant_match" /\ IsCase(7) /\ min_match_ratio = <<1, 2>>) => relevant = FALSE

\* C10 witness: that call was made, got past the brand gate (the title does
\* share the brand) and was judged not relevant.
C10_Witness ==
  /\ fn = "is_relevant_match"
  /\ IsCase(7)
  /\ min_match_ratio = <<1, 2>>
  /\ ret = "blend"
  /\ relevant = FALSE

\* C11: with an empty or whitespace-only search term fuzzy_match_score
\* returns 0.0, whatever the title.
C11_EmptySearchTermScoresZero ==
  (ScoreReturned /\ split(search_term) = <<>>) => score = <<0, 1>>

\* the text holds no word character and at least one punctuation character
OnlyPunctuation(text) ==
  /\ \A i \in DOMAIN text : ~IsWordChar(text[i])
  /\ \E i \in DOMAIN text : ~IsWordOrSpace(text[i])

\* C12: for a non-empty search term and a title made only of punctuation
\* fuzzy_match_score returns 0.1.
C12_PunctuationTitleScoresBrandMismatch ==
  (ScoreReturned /\ search_term # <<>> /\ OnlyPunctuation(listing_title)) => score = <<1, 10>>

\* C13: every threshold given to is_relevant_match exceeds 0.15, so a score
\* returned by the brand gate (0.1) or the model-number gate (0.15) is never
\* classified relevant.
C13_GateScoresNeverRelevant ==
  /\ \A ratio \in MinMatchRatios : FracLT(<<3, 20>>, ratio)
  /\ (fn = "is_relevant_match" /\ ret \in {"brand", "number"}) => relevant = FALSE

\* C13 witness: a call with the lowest threshold (0.3) whose score came from
\* the model-number gate was judged not relevant.
C13_Witness ==
  /\ fn = "is_relevant_match"
  /\ ret = "number"
  /\ score = <<3, 20>>
  /\ min_match_ratio = <<3, 10>>
  /\ relevant = FALSE

\* the model words of the search term, as the gate sees them
ModelWords ==
  split(lower(split_rest(search_term)))

\* twice the number of model words found as substrings of the lowercased title
TwiceModelWordsInTitle ==
  2 * Cardinality({ i \in DOMAIN ModelWords : contains(lower(listing_title), ModelWords[i]) })

VariationsReturned ==
  fn = "generate_search_variations"

\* the whitespace-separated tokens of the search term
Parts ==
  split(search_term)

\* C14: the first element of generate_search_variations(s) is s itself,
\* unmodified, for every input s.
C14_FirstIsOriginal ==
  VariationsReturned => (variations # <<>> /\ variations[1] = search_term)

\* C14 witness: a search term with upper-case letters and irregular spacing
\* came back unmodified at the head of several variations.
C14_Witness ==
  /\ VariationsReturned
  /\ Len(variations) >= 2
  /\ variations[1] = search_term
  /\ search_term # lower(search_term)
  /\ search_term # join(<<" ">>, Parts)

\* C15: for an input with fewer than two whitespace-separated tokens
\* (the empty string included) the result is exactly [s].
C15_ShortInputSingleton ==
  (VariationsReturned /\ Len(Parts) < 2) => variations = <<search_term>>

\* C15 witness: a one-token input with surrounding spaces was returned as
\* the only variation.
C15_Witness ==
  /\ VariationsReturned
  /\ Len(Parts) = 1
  /\ search_term # Parts[1]
  /\ variations = <<search_term>>

\* the variations in the order the rules produce them (original, hyphen
\* removal, first model word, first digit-bearing token, filler removal,
\* numeric concatenation)
Produced ==
  IF Len(Parts) < 2 THEN <<search_term>> ELSE candidate_variations(search_term)

\* positions of Produced that no earlier position equals case-insensitively
FirstOccurrences ==
  { k \in DOMAIN Produced :
      \A j \in 1..(k - 1) : lower(Produced[j]) # lower(Produced[k]) }

\* C16: the returned list holds no two elements equal case-insensitively,
\* and it is the list of produced variations with later duplicates dropped,
\* in production order.
C16_DedupKeepsOrder ==
  VariationsReturned =>
    /\ \A i, j \in DOMAIN variations :
         i < j => lower(variations[i]) # lower(variations[j])
    /\ Len(variations) = Cardinality(FirstOccurrences)
    /\ \A k \in FirstOccurrences :
         variations[Cardinality({ j \in FirstOccurrences : j <= k })] = Produced[k]

\* C16 witness: duplicates were produced and dropped, and at least three
\* variations survive.
C16_Witness ==
  /\ VariationsReturned
  /\ Len(variations) < Len(Produced)
  /\ Len(variations) >= 3

\* C17: for a search term of at least two tokens every returned string has
\* at least two whitespace-separated tokens, the first being the brand.
C17_VariationsAreSearchTermShaped ==
  (VariationsReturned /\ Len(Parts) >= 2) =>
    \A i \in DOMAIN variations :
      /\ Len(split(variations[i])) >= 2
      /\ split(variations[i])[1] = Parts[1]

\* the brand followed by all model tokens concatenated without separators
BrandAndConcatenation ==
  Parts[1] \o <<" ">> \o join(<<>>, Tail(Parts))

\* some model token consists of digits only
NumericModelToken ==
  \E i \in 2..Len(Parts) : \A k \in DOMAIN Parts[i] : IsDigit(Parts[i][k])

\* C18: when the model has at least two tokens, the result contains the
\* brand followed by the concatenated model tokens if and only if some
\* model token is purely numeric; "BMW G 310" yields "BMW G310".
C18_ConcatenationIffNumeric ==
  /\ (VariationsReturned /\ Len(Parts) >= 3) =>
       ((BrandAndConcatenation \in Range(variations)) <=> NumericModelToken)
  /\ (VariationsReturned /\ search_term = TEST_CASES[14][1]) =>
       TEST_CASES[14][2] \in Range(variations)

\* C18 witness: a model of two tokens, one a number, came back with its
\* concatenation as the last variation.
C18_Witness ==
  /\ VariationsReturned
  /\ Len(Parts) = 3
  /\ NumericModelToken
  /\ variations[Len(variations)] = BrandAndConcatenation

\* the candidate element was scored by is_relevant_match
Scored ==
  call # NoCall

\* C20: in scrape_gumtree and scrape_webuycars each candidate title is
\* scored against the original search term: the call of is_relevant_match
\* has the search term in the search-term role and the candidate's title in
\* the title role, whichever variation retrieved the candidate.
C20_ScoredAgainstOriginalTerm ==
  Scored => (call.search_term = search_term /\ call.listing_title = candidate.title)

\* the id prefix of the tracker that is running
SourcePrefix ==
  CASE source = GUMTREE_SOURCE   -> GUMTREE_ID_PREFIX
    [] source = WEBUYCARS_SOURCE -> WEBUYCARS_ID_PREFIX
    [] OTHER                     -> AUTOTRADER_ID_PREFIX

\* the listing id of the element processed last
CandidateId ==
  prefixed_id(SourcePrefix, candidate.id)

\* one step of a scrape call keeps every id seen and every listing accepted
\* so far, files listings under their own id among the seen ids, and leaves
\* seen_ids and listings alone when the element's id was seen before
C21_Step ==
  /\ seen_ids \subseteq seen_ids'
  /\ \A k \in DOMAIN listings : k \in DOMAIN listings' /\ listings'[k] = listings[k]
  /\ \A k \in DOMAIN listings' : listings'[k].id = k /\ k \in seen_ids'
  /\ (pc = "elements" /\ pc' = "elements" /\ CandidateId' \in seen_ids)
       => (seen_ids' = seen_ids /\ listings' = listings)

\* C21: within one scrape call a listing id is considered at most once:
\* an element whose id is already in seen_ids is skipped, the dictionary
\* holds one listing per id and a later occurrence never replaces the first
\* accepted one.
C21_IdConsideredOnce ==
  [][C21_Step]_vars

\* C21 witness: under a later variation an element came with the id of an
\* accepted listing and another title, and the accepted listing is still
\* the first one.
C21_Witness ==
  /\ pc = "elements"
  /\ variation_index >= 2
  /\ candidate.title # <<>>
  /\ candidate.complete
  /\ CandidateId \in DOMAIN listings
  /\ listings[CandidateId].title # candidate.title

\* C22: the sequence-similarity component of the blended score is
\* symmetric: whenever a call reaches the blend, the ratio computed for the
\* normalized search term and title equals the ratio computed for the two
\* strings in the other order.
C22_SequenceRatioSymmetric ==
  (ScoreReturned /\ ret = "blend") =>
    sequence_ratio(SearchNorm, TitleNorm) = sequence_ratio(TitleNorm, SearchNorm)

\* the model tokens of the search term
ModelParts ==
  Tail(Parts)

\* the token is one of SX, GS, X, SE, ABS, compared case-insensitively
IsFiller(token) ==
  upper(token) \in FILLER_SUFFIXES

\* the brand followed by the non-filler model tokens, in their order, joined
\* by single spaces
BrandAndNonFillers ==
  Parts[1] \o <<" ">> \o join(<<" ">>, SelectSeq(ModelParts, LAMBDA token : ~IsFiller(token)))

\* C23: when the model holds at least one filler token and at least one
\* other token, the result contains (up to case) the brand followed by the
\* non-filler model tokens joined by single spaces; when every model token
\* is a filler, filler removal contributes nothing (no brand with an empty
\* model).
C23_FillerRemoval ==
  (VariationsReturned /\ Len(Parts) >= 2) =>
    /\ ((\E i \in DOMAIN ModelParts : IsFiller(ModelParts[i]))
        /\ (\E i \in DOMAIN ModelParts : ~IsFiller(ModelParts[i])))
         => \E k \in DOMAIN variations : lower(variations[k]) = lower(BrandAndNonFillers)
    /\ (\A i \in DOMAIN ModelParts : IsFiller(ModelParts[i]))
         => \A k \in DOMAIN variations : variations[k] # BrandAndNonFillers

\* C23 witness: a lower-case filler stood before another model token and
\* the brand with the remaining token came back as the last variation.
C23_Witness ==
  /\ VariationsReturned
  /\ Len(Parts) = 3
  /\ IsFiller(ModelParts[1])
  /\ ModelParts[1] # upper(ModelParts[1])
  /\ ~IsFiller(ModelParts[2])
  /\ variations[Len(variations)] = BrandAndNonFillers

\* process_listings has returned and main is about to clean up and save
Processed ==
  run_pc = "save"

\* a run has ended with a successful save
RunSaved ==
  run_pc = "idle" /\ runs >= 1 /\ saved

\* the listings of the current run that were already stored for their bike
KnownListings ==
  { x \in returned_listings(current) : x[2] \in DOMAIN get_dict(previous, x[1]) }

\* the stored listing and the current listing of a known listing
Stored(x) ==
  previous[x[1]][x[2]]

Current(x) ==
  current[x[1]][x[2]]

\* the integer each price string of the model stands for; a string that is
\* no price has no entry
PriceValues ==
  (PRICE_HIGH :> 85000) @@ (PRICE_LOW :> 79000) @@ (PRICE_HIGH_PLAIN :> 85000)

BothParse(x) ==
  Stored(x).price \in DOMAIN PriceValues /\ Current(x).price \in DOMAIN PriceValues

Lower(x) ==
  BothParse(x) /\ PriceValues[Current(x).price] < PriceValues[Stored(x).price]

Differ(x) ==
  BothParse(x) /\ PriceValues[Current(x).price] # PriceValues[Stored(x).price]

\* C24: stale-listing removal applies only to listings of live scrapers: a
\* stored listing whose source is not in LIVE_SCRAPERS stays in the saved
\* store after a run that did not return it, and a stored live-scraper
\* listing whose id is absent from the current run is removed.
C24_OnlyLiveListingsRemoved ==
  RunSaved =>
    \A bike \in DOMAIN previous : \A listing_id \in DOMAIN previous[bike] :
      /\ (/\ previous[bike][listing_id].source \notin LIVE_SCRAPERS
          /\ <<bike, listing_id>> \notin returned_listings(current))
           => (listing_id \in DOMAIN get_dict(store, bike)
               /\ store[bike][listing_id] = previous[bike][listing_id])
      /\ (/\ previous[bike][listing_id].source \in LIVE_SCRAPERS
          /\ listing_id \notin current_run_ids(current))
           => listing_id \notin DOMAIN get_dict(store, bike)

\* C25: a listing present for the same bike in the previous store and in
\* the current run is flagged price_dropped and reported as a price drop if
\* and only if both prices parse to integers and the current one is
\* strictly lower; otherwise price_dropped is False and old_price None,
\* whatever an earlier run had flagged.
C25_PriceDropIffLower ==
  Processed =>
    /\ \A x \in KnownListings :
         /\ Current(x).price_dropped <=> Lower(x)
         /\ (x \in price_drops) <=> Lower(x)
         /\ Lower(x) => Current(x).old_price = Stored(x).price
         /\ ~Lower(x) => (~Current(x).price_dropped /\ Current(x).old_price = NONE)
    /\ price_drops \subseteq KnownListings

\* C25 witness: a stored listing came back at a lower price and is flagged
\* and reported as a price drop, with the stored price as old_price.
C25_Witness ==
  /\ Processed
  /\ \E x \in price_drops :
       /\ Stored(x).price = PRICE_HIGH
       /\ Current(x).price = PRICE_LOW
       /\ Current(x).old_price = PRICE_HIGH
       /\ Current(x).price_dropped

\* C26: a listing is reported as new exactly when its id is absent from
\* the previously saved store under the same bike; a listing returned for
\* the same bike by two consecutive runs, the first of which saved, is not
\* reported as new by the second.
C26_NewIffNotStored ==
  Processed =>
    /\ new_listings = returned_listings(current) \ KnownListings
    /\ earlier.saved =>
         \A x \in earlier.returned \cap returned_listings(current) : x \notin new_listings

\* C26 witness: the second run returns again a listing the first run
\* reported as new and saved, and reports only another listing as new.
C26_Witness ==
  /\ Processed
  /\ earlier.saved
  /\ \E x \in earlier.new_listings \cap returned_listings(current) : x \notin new_listings
  /\ new_listings # {}

\* C29: for a listing present for the same bike in consecutive runs, the
\* price_history saved after the later run is the history saved before it
\* extended by exactly one entry, the current price, when both prices parse
\* and differ, and by nothing otherwise.
C29_HistoryGrowsByPrefix ==
  RunSaved =>
    \A x \in KnownListings :
      store[x[1]][x[2]].price_history =
        Stored(x).price_history \o (IF Differ(x) THEN <<Current(x).price>> ELSE <<>>)

\* C29 witness: a listing stored with a history came back at another price
\* and its saved history is the old one with the new price appended.
C29_Witness ==
  /\ RunSaved
  /\ \E x \in KnownListings :
       /\ Stored(x).price_history # <<>>
       /\ Differ(x)
       /\ store[x[1]][x[2]].price_history = Stored(x).price_history \o <<Current(x).price>>

\* the bikes whose results scrape_all_bikes_async has merged
MergedBikes ==
  IF async_pc = "idle" THEN {} ELSE DOMAIN current

\* the scrapers that raised while scraping the bike
Raising(bike) ==
  { s \in Range(SCRAPERS) : <<bike, s>> \in raised }

\* C27: when a scraper raises while scraping a bike, scrape_bike_async
\* returns an empty result for it and scrape_all_bikes_async goes on: every
\* listing id another scraper returned for that bike is in the bike's merged
\* result, and when scrape_all_bikes_async returns every bike has a result.
C27_RaisingScraperGivesEmptyResult ==
  /\ async_pc # "failed"
  /\ \A x \in raised : results[x[1]][x[2]] = <<>>
  /\ \A bike \in MergedBikes : \A s \in Range(SCRAPERS) \ Raising(bike) :
       DOMAIN results[bike][s] \subseteq DOMAIN current[bike]
  /\ async_pc = "done" => DOMAIN current = Range(BikeList)

\* a scraper raised for the first bike, another scraper's listing for that
\* bike was merged, and the second bike was scraped with a listing as well
C27_Witness ==
  /\ async_pc = "done"
  /\ <<BikeList[1], SCRAPERS[1]>> \in raised
  /\ "gt_1" \in DOMAIN results[BikeList[1]][SCRAPERS[2]]
  /\ "gt_1" \in DOMAIN current[BikeList[1]]
  /\ current[BikeList[2]] # <<>>

\* the results of a bike merged in the order of SCRAPERS
InScraperOrder(bike) ==
  update(update(results[bike][SCRAPERS[1]], results[bike][SCRAPERS[2]]),
         results[bike][SCRAPERS[3]])

\* C28: the merged dictionary of a bike is made only after all its scrapers
\* have finished and it is the results merged in the order of SCRAPERS,
\* whatever the order in which the scrapers finished.
C28_MergeIndependentOfCompletionOrder ==
  \A bike \in MergedBikes :
    /\ Len(completed[bike]) = Len(SCRAPERS)
    /\ Range(completed[bike]) = Range(SCRAPERS)
    /\ current[bike] = InScraperOrder(bike)

\* Gumtree finished before AutoTrader, both returned a listing under the
\* same id, and the merged result holds Gumtree's
C28_Witness ==
  /\ BikeList[1] \in MergedBikes
  /\ completed[BikeList[1]] = << SCRAPERS[2], SCRAPERS[3], SCRAPERS[1] >>
  /\ "gt_1" \in DOMAIN results[BikeList[1]][SCRAPERS[1]]
  /\ "gt_1" \in DOMAIN results[BikeList[1]][SCRAPERS[2]]
  /\ current[BikeList[1]]["gt_1"].source = GUMTREE_SOURCE

\* the limits on the pages requested and on the polling steps of a page,
\* and the dictionary returned holding every id that was stored
C30_Bounded ==
  /\ requests <= 100
  /\ max_wait <= 16
  /\ page_pc = "returned" => DOMAIN all_listings = captured

\* the check of a page: the loop is left exactly when the page and the one
\* before it had no listings, and a page with listings sets the count of
\* consecutive empty pages to zero
C30_CheckStep ==
  (page_pc = "poll" /\ page_pc' # "poll" /\ page_pc' # "wait") =>
    /\ (page_pc' = "closed") <=> (page_listings = <<>> /\ previous_page_empty)
    /\ page_listings # <<>> => consecutive_empty_pages' = 0
    /\ page_pc' = "loop" => page_num' = page_num + 1

\* C30: the pagination loop of fetch_all_listings always terminates: at most
\* 100 pages are requested, at most 16 polling steps are made per page, the
\* loop stops at the page that completes two consecutive pages without
\* listings, a page with listings resets the count of empty pages, and the
\* listings stored before the stop are all returned.
C30_PaginationTerminates ==
  /\ []C30_Bounded
  /\ [][C30_CheckStep]_vars
  /\ <>(page_pc = "returned")

\* listings were stored on the first pages, then two pages in a row had
\* none and the function returned everything stored
C30_Witness ==
  /\ page_pc = "returned"
  /\ consecutive_empty_pages = 2
  /\ previous_page_empty
  /\ requests > 2
  /\ captured = CacheIds
  /\ DOMAIN all_listings = CacheIds

====
